---- MODULE Spec2Model ----
(***************************************************************************)
(* A model of the ip-api client library (src/src/lib.rs): IpApi::request   *)
(* builds the request target, issues one GET, collects the streamed body,  *)
(* decodes it as UTF-8, parses it as JSON and projects the top-level keys  *)
(* into a Response.  Bytes are integers 0..255, text is a sequence of      *)
(* bytes, and the decoders work on those bytes.                            *)
(***************************************************************************)
EXTENDS Integers, Sequences, FiniteSets, TLC

(***************************************************************************)
(* Text: the printable ASCII characters in code order, 32..126 (code 96 is  *)
(* written <grave>: the lexer does not take that character in a string).   *)
(***************************************************************************)
Printable ==
  << " ", "!", "\"", "#", "$", "%", "&", "'", "(", ")", "*", "+", ",", "-", ".", "/",
     "0", "1", "2", "3", "4", "5", "6", "7", "8", "9", ":", ";", "<", "=", ">", "?",
     "@", "A", "B", "C", "D", "E", "F", "G", "H", "I", "J", "K", "L", "M", "N", "O",
     "P", "Q", "R", "S", "T", "U", "V", "W", "X", "Y", "Z", "[", "\\", "]", "^", "_",
     "<grave>", "a", "b", "c", "d", "e", "f", "g", "h", "i", "j", "k", "l", "m", "n", "o",
     "p", "q", "r", "s", "t", "u", "v", "w", "x", "y", "z", "{", "|", "}", "~" >>

\* The byte of one printable character.
Ord(ch) == 31 + (CHOOSE i \in 1..Len(Printable) : Printable[i] = ch)

\* The bytes of a text given character by character.
S(chars) == [i \in 1..Len(chars) |-> Ord(chars[i])]

RECURSIVE Concat(_)
\* Vec<Vec<u8>>::concat: the chunks joined in order.
Concat(chunks) ==
  IF chunks = << >> THEN << >> ELSE Head(chunks) \o Concat(Tail(chunks))

(***************************************************************************)
(* Option<T>.                                                              *)
(***************************************************************************)
None == [some |-> FALSE]
Some(x) == [some |-> TRUE, v |-> x]

(***************************************************************************)
(* String::from_utf8: the width of the well-formed UTF-8 sequence that     *)
(* starts at b[i], 0 when there is none.                                   *)
(***************************************************************************)
IsCont(b, i) == i <= Len(b) /\ b[i] \in 128..191

Utf8Width(b, i) ==
  LET c == b[i] IN
  IF c <= 127 THEN 1
  ELSE IF c \in 194..223 THEN (IF IsCont(b, i + 1) THEN 2 ELSE 0)
  ELSE IF c = 224
    THEN (IF i + 1 <= Len(b) /\ b[i + 1] \in 160..191 /\ IsCont(b, i + 2) THEN 3 ELSE 0)
  ELSE IF c \in (225..236) \cup {238, 239}
    THEN (IF IsCont(b, i + 1) /\ IsCont(b, i + 2) THEN 3 ELSE 0)
  ELSE IF c = 237
    THEN (IF i + 1 <= Len(b) /\ b[i + 1] \in 128..159 /\ IsCont(b, i + 2) THEN 3 ELSE 0)
  ELSE IF c = 240
    THEN (IF i + 1 <= Len(b) /\ b[i + 1] \in 144..191
             /\ IsCont(b, i + 2) /\ IsCont(b, i + 3) THEN 4 ELSE 0)
  ELSE IF c \in 241..243
    THEN (IF IsCont(b, i + 1) /\ IsCont(b, i + 2) /\ IsCont(b, i + 3) THEN 4 ELSE 0)
  ELSE IF c = 244
    THEN (IF i + 1 <= Len(b) /\ b[i + 1] \in 128..143
             /\ IsCont(b, i + 2) /\ IsCont(b, i + 3) THEN 4 ELSE 0)
  ELSE 0

\* The ASCII run that starts at b[i] ends before this index: the first
\* byte from i on that is not ASCII, Len(b) + 1 when there is none.
AsciiEnd(b, i) ==
  LET rest == {k \in i..Len(b) : b[k] >= 128}
  IN  IF rest = {} THEN Len(b) + 1 ELSE CHOOSE k \in rest : \A m \in rest : k <= m

RECURSIVE LossyFrom(_, _)
LossyFrom(b, i) ==
  IF i > Len(b) THEN << >>
  ELSE IF b[i] < 128 THEN SubSeq(b, i, AsciiEnd(b, i) - 1) \o LossyFrom(b, AsciiEnd(b, i))
  ELSE IF Utf8Width(b, i) = 0 THEN << 239, 191, 189 >> \o LossyFrom(b, i + 1)
  ELSE SubSeq(b, i, i + Utf8Width(b, i) - 1) \o LossyFrom(b, i + Utf8Width(b, i))

\* A decoder that replaces what is not UTF-8 by U+FFFD instead of failing.
FromUtf8Lossy(data) == [ok |-> TRUE, v |-> LossyFrom(data, 1)]

RECURSIVE Utf8ValidFrom(_, _)
\* run_utf8_validation: a run of ASCII bytes is skipped as a whole, any
\* other character is checked byte by byte.
Utf8ValidFrom(b, i) ==
  IF i > Len(b) THEN TRUE
  ELSE IF b[i] < 128 THEN Utf8ValidFrom(b, AsciiEnd(b, i))
  ELSE LET w == Utf8Width(b, i) IN w > 0 /\ Utf8ValidFrom(b, i + w)

\* String::from_utf8(data): the same bytes as text, or FromUtf8Error.
FromUtf8(data) ==
  IF Utf8ValidFrom(data, 1) THEN [ok |-> TRUE, v |-> data]
  ELSE [ok |-> FALSE, err |-> "FromUtf8Error"]

(***************************************************************************)
(* serde_json::Value.  An object is a function from its keys (byte         *)
(* sequences) to values; a number keeps its decimal digits: the value is   *)
(* (IF neg THEN -1 ELSE 1) * mant * 10^exp.                                *)
(***************************************************************************)
JNull == [t |-> "null"]
JBool(b) == [t |-> "bool", b |-> b]
JNum(kind, neg, mant, exp) ==
  [t |-> "num", kind |-> kind, neg |-> neg, mant |-> mant, exp |-> exp]
JStr(s) == [t |-> "str", s |-> s]
JArr(a) == [t |-> "arr", a |-> a]
JObj(o) == [t |-> "obj", o |-> o]

QUOTE == Ord("\"")
BACKSLASH == Ord("\\")
SLASH == Ord("/")
COMMA == Ord(",")
COLON == Ord(":")
DOT == Ord(".")
MINUS == Ord("-")
PLUS == Ord("+")
ZERO == Ord("0")
LBRACE == Ord("{")
RBRACE == Ord("}")
LBRACKET == Ord("[")
RBRACKET == Ord("]")

\* A parser's result: the value and the index after it, or the error code.
POk(v, i) == [ok |-> TRUE, v |-> v, i |-> i]
PErr(e) == [ok |-> FALSE, err |-> e]

\* peek(): the byte at i, -1 at the end of the input.
At(t, i) == IF i <= Len(t) THEN t[i] ELSE -1
IsDigit(b) == b \in 48..57

RECURSIVE SkipWs(_, _)
\* parse_whitespace: the index of the first byte at or after i that is not
\* a space, a line feed, a tab or a carriage return.
SkipWs(t, i) == IF At(t, i) \in {32, 10, 9, 13} THEN SkipWs(t, i + 1) ELSE i

RECURSIVE DigitsEnd(_, _)
DigitsEnd(t, i) == IF IsDigit(At(t, i)) THEN DigitsEnd(t, i + 1) ELSE i

RECURSIVE DigitsVal(_, _, _, _)
\* The number written by the digits t[i..j-1], after the digits of acc.
DigitsVal(t, i, j, acc) ==
  IF i >= j THEN acc ELSE DigitsVal(t, i + 1, j, acc * 10 + (t[i] - 48))

\* parse_ident: the rest of null, true, false.
ParseIdent(t, i, word, v) ==
  IF i + Len(word) - 1 > Len(t) THEN PErr("EofWhileParsingValue")
  ELSE IF \A k \in 1..Len(word) : t[i + k - 1] = word[k] THEN POk(v, i + Len(word))
  ELSE PErr("ExpectedSomeIdent")

\* A number of 10^309 or more does not fit f64 (NumberOutOfRange); a number
\* with a fraction or an exponent, and -0, is a Float.
NumberEnd(neg, mant, exp, float, intLen, end) ==
  IF mant # 0 /\ intLen + exp > 309 THEN PErr("NumberOutOfRange")
  ELSE POk(JNum(IF float \/ (neg /\ mant = 0) THEN "Float"
                ELSE IF neg THEN "NegInt" ELSE "PosInt", neg, mant, exp), end)

BadNumber(t, p) == PErr(IF p > Len(t) THEN "EofWhileParsingValue" ELSE "InvalidNumber")

\* parse_exponent: e0 is after the e and its sign, e1 after the digits.
ParseExponent(t, neg, mant, fracLen, intLen, eneg, e0, e1) ==
  IF e1 = e0 THEN BadNumber(t, e0)
  ELSE NumberEnd(neg, mant,
                 (IF eneg THEN -1 ELSE 1) * DigitsVal(t, e0, e1, 0) - fracLen,
                 TRUE, intLen + fracLen, e1)

ExponentSign(t, neg, mant, fracLen, intLen, s0, e0) ==
  ParseExponent(t, neg, mant, fracLen, intLen, At(t, s0) = MINUS, e0, DigitsEnd(t, e0))

\* parse_number: p is after the digits read so far.
ParseNumberTail(t, neg, mant, fracLen, intLen, p) ==
  IF At(t, p) \in {Ord("e"), Ord("E")}
    THEN ExponentSign(t, neg, mant, fracLen, intLen, p + 1,
                      IF At(t, p + 1) \in {PLUS, MINUS} THEN p + 2 ELSE p + 1)
    ELSE NumberEnd(neg, mant, -fracLen, fracLen > 0, intLen + fracLen, p)

\* parse_decimal: the digits t[f0..f1-1] after the point; one at least.
ParseDecimal(t, neg, int, intLen, f0, f1) ==
  IF f1 = f0 THEN BadNumber(t, f0)
  ELSE ParseNumberTail(t, neg, DigitsVal(t, f0, f1, int), f1 - f0, intLen, f1)

\* The integer digits are t[j..k-1]; a leading 0 stands alone.
IntegerDigits(t, neg, j, k) ==
  IF t[j] = ZERO /\ IsDigit(At(t, k)) THEN PErr("InvalidNumber")
  ELSE IF At(t, k) = DOT
    THEN ParseDecimal(t, neg, DigitsVal(t, j, k, 0), k - j, k + 1, DigitsEnd(t, k + 1))
  ELSE ParseNumberTail(t, neg, DigitsVal(t, j, k, 0), 0, k - j, k)

\* parse_integer: j is at the first digit.
ParseInteger(t, neg, j) ==
  IF ~IsDigit(At(t, j)) THEN BadNumber(t, j)
  ELSE IntegerDigits(t, neg, j, IF t[j] = ZERO THEN j + 1 ELSE DigitsEnd(t, j))

\* A number: t[i] is '-' or a digit.
ParseNumber(t, i) == ParseInteger(t, t[i] = MINUS, IF t[i] = MINUS THEN i + 1 ELSE i)

\* decode_hex_val: the value of a hexadecimal digit, -1 for any other byte.
HexVal(b) ==
  IF b \in 48..57 THEN b - 48
  ELSE IF b \in 97..102 THEN b - 87
  ELSE IF b \in 65..70 THEN b - 55
  ELSE -1

\* The four hexadecimal digits t[i..i+3] as a number, -1 when they are not.
Hex4(t, i) ==
  IF i + 3 > Len(t) \/ \E k \in 0..3 : HexVal(t[i + k]) < 0 THEN -1
  ELSE HexVal(t[i]) * 4096 + HexVal(t[i + 1]) * 256 + HexVal(t[i + 2]) * 16
         + HexVal(t[i + 3])

\* char::encode_utf8: the bytes of a code point.
EncodeUtf8(cp) ==
  IF cp < 128 THEN << cp >>
  ELSE IF cp < 2048 THEN << 192 + (cp \div 64), 128 + (cp % 64) >>
  ELSE IF cp < 65536
    THEN << 224 + (cp \div 4096), 128 + ((cp \div 64) % 64), 128 + (cp % 64) >>
  ELSE << 240 + (cp \div 262144), 128 + ((cp \div 4096) % 64),
          128 + ((cp \div 64) % 64), 128 + (cp % 64) >>

\* The low half of a surrogate pair: \u and four digits at t[i..i+5].
ParseSurrogate(t, i, hi, lo) ==
  IF At(t, i) # BACKSLASH \/ At(t, i + 1) # Ord("u")
    THEN PErr("UnexpectedEndOfHexEscape")
  ELSE IF lo \notin 56320..57343 THEN PErr("LoneLeadingSurrogateInHexEscape")
  ELSE POk(EncodeUtf8(65536 + (hi - 55296) * 1024 + (lo - 56320)), i + 6)

\* \u and the four digits hi, which end before t[i].
ParseUnicode(t, i, hi) ==
  IF hi < 0 THEN PErr("InvalidEscape")
  ELSE IF hi \in 56320..57343 THEN PErr("LoneLeadingSurrogateInHexEscape")
  ELSE IF hi \in 55296..56319 THEN ParseSurrogate(t, i, hi, Hex4(t, i + 2))
  ELSE POk(EncodeUtf8(hi), i)

\* parse_escape: c is the byte after a backslash, t[i] the one after c.
ParseEscape(t, i, c) ==
  IF c = -1 THEN PErr("EofWhileParsingString")
  ELSE IF c \in {QUOTE, BACKSLASH, SLASH} THEN POk(<< c >>, i)
  ELSE IF c = Ord("b") THEN POk(<< 8 >>, i)
  ELSE IF c = Ord("f") THEN POk(<< 12 >>, i)
  ELSE IF c = Ord("n") THEN POk(<< 10 >>, i)
  ELSE IF c = Ord("r") THEN POk(<< 13 >>, i)
  ELSE IF c = Ord("t") THEN POk(<< 9 >>, i)
  ELSE IF c = Ord("u") THEN ParseUnicode(t, i + 4, Hex4(t, i))
  ELSE PErr("InvalidEscape")

\* The bytes parse_str stops at (the ESCAPE table): the quote, the
\* backslash and the control characters; so does the end of the text.
Escape(b) == b = QUOTE \/ b = BACKSLASH \/ b < 32

\* The first index from j on that holds such a byte, Len(t) + 1 when there
\* is none: the bytes before it are copied as they are.
StrStop(t, j) ==
  CHOOSE k \in j..(Len(t) + 1) : Escape(At(t, k)) /\ \A m \in j..(k - 1) : ~Escape(t[m])

RECURSIVE ScanStr(_, _, _)

\* The string goes on after an escape, when the escape is one.
AfterEscape(t, acc, e) == IF e.ok THEN ScanStr(t, e.i, acc \o e.v) ELSE e

\* The byte the scan stopped at, t[k], after the bytes t[j..k-1].
StrAt(t, j, acc, k) ==
  IF k > Len(t) THEN PErr("EofWhileParsingString")
  ELSE IF t[k] = QUOTE THEN POk(acc \o SubSeq(t, j, k - 1), k + 1)
  ELSE IF t[k] = BACKSLASH
    THEN AfterEscape(t, acc \o SubSeq(t, j, k - 1), ParseEscape(t, k + 2, At(t, k + 1)))
  ELSE PErr("ControlCharacterWhileParsingString")

\* parse_str: the bytes of the string whose opening quote is before t[j].
ScanStr(t, j, acc) == StrAt(t, j, acc, StrStop(t, j))

\* A string value from its parsed bytes.
StringValue(s) == IF s.ok THEN POk(JStr(s.v), s.i) ELSE s

RECURSIVE ParseValue(_, _, _)
RECURSIVE ArrayItems(_, _, _, _)
RECURSIVE ObjectItems(_, _, _, _)

\* SeqAccess, after an element: k is at the byte after it and its
\* whitespace, n at the byte after that one and its whitespace.
ArrayNext(t, acc, depth, k, n) ==
  IF At(t, k) = RBRACKET THEN POk(JArr(acc), k + 1)
  ELSE IF At(t, k) = COMMA
    THEN (IF At(t, n) = RBRACKET THEN PErr("TrailingComma")
          ELSE ArrayItems(t, n, acc, depth))
  ELSE PErr(IF k > Len(t) THEN "EofWhileParsingList" ELSE "ExpectedListCommaOrEnd")

ArrayElement(t, acc, depth, r, k) ==
  IF ~r.ok THEN r ELSE ArrayNext(t, Append(acc, r.v), depth, k, SkipWs(t, k + 1))

ArrayValue(t, acc, depth, r) ==
  ArrayElement(t, acc, depth, r, IF r.ok THEN SkipWs(t, r.i) ELSE 0)

\* SeqAccess: the elements of an array; j is at the first byte of a value.
ArrayItems(t, j, acc, depth) == ArrayValue(t, acc, depth, ParseValue(t, j, depth))

\* A member read: its key and value; i is at the byte after the value and
\* its whitespace, n at the byte after that one and its whitespace.
MemberValue(t, key, r, i) ==
  IF ~r.ok THEN r
  ELSE [ok |-> TRUE, key |-> key, v |-> r.v, i |-> i, n |-> SkipWs(t, i + 1)]

\* The colon after a key: c is at the byte after the key and its whitespace.
MemberColon(t, depth, key, c, r) ==
  IF At(t, c) # COLON
    THEN PErr(IF c > Len(t) THEN "EofWhileParsingObject" ELSE "ExpectedColon")
  ELSE MemberValue(t, key, r, IF r.ok THEN SkipWs(t, r.i) ELSE 0)

MemberKey(t, depth, key, c) ==
  IF ~key.ok THEN key ELSE MemberColon(t, depth, key.v, c, ParseValue(t, c + 1, depth))

\* MapAccess::next_key_seed and next_value_seed: j is at the first byte of
\* a key.
ParseMember(t, j, depth, key) ==
  IF At(t, j) # QUOTE
    THEN PErr(IF j > Len(t) THEN "EofWhileParsingObject" ELSE "KeyMustBeAString")
  ELSE MemberKey(t, depth, key, IF key.ok THEN SkipWs(t, key.i) ELSE 0)

\* MapAccess, after the member m: a key given again replaces the earlier
\* one (Map::insert); then the object ends or goes on after a comma.
ObjectNext(t, acc, depth, m) ==
  IF m.ok /\ At(t, m.i) = COMMA /\ At(t, m.n) # RBRACE
    THEN ObjectItems(t, m.n, (m.key :> m.v) @@ acc, depth)
  ELSE IF ~m.ok THEN m
  ELSE IF At(t, m.i) = RBRACE THEN POk(JObj((m.key :> m.v) @@ acc), m.i + 1)
  ELSE IF At(t, m.i) = COMMA THEN PErr("TrailingComma")
  ELSE PErr(IF m.i > Len(t) THEN "EofWhileParsingObject" ELSE "ExpectedObjectCommaOrEnd")

\* MapAccess: the members of an object; j is at the first byte of a key.
ObjectItems(t, j, acc, depth) ==
  ObjectNext(t, acc, depth, ParseMember(t, j, depth, ScanStr(t, j + 1, << >>)))

\* An array or an object: c is the opening byte, n is at the byte after it
\* and its whitespace; depth is the nesting still allowed.
ParseNested(t, c, n, depth) ==
  IF depth = 1 THEN PErr("RecursionLimitExceeded")
  ELSE IF c = LBRACKET
    THEN (IF At(t, n) = RBRACKET THEN POk(JArr(<< >>), n + 1)
          ELSE ArrayItems(t, n, << >>, depth - 1))
  ELSE (IF At(t, n) = RBRACE THEN POk(JObj(<< >>), n + 1)
        ELSE ObjectItems(t, n, << >>, depth - 1))

\* Deserializer::deserialize_any for Value: the value whose first byte is
\* c, at t[j].
ValueAt(t, j, c, depth) ==
  IF c = -1 THEN PErr("EofWhileParsingValue")
  ELSE IF c = Ord("n") THEN ParseIdent(t, j, S(<< "n", "u", "l", "l" >>), JNull)
  ELSE IF c = Ord("t") THEN ParseIdent(t, j, S(<< "t", "r", "u", "e" >>), JBool(TRUE))
  ELSE IF c = Ord("f")
    THEN ParseIdent(t, j, S(<< "f", "a", "l", "s", "e" >>), JBool(FALSE))
  ELSE IF c = MINUS \/ IsDigit(c) THEN ParseNumber(t, j)
  ELSE IF c = QUOTE THEN StringValue(ScanStr(t, j + 1, << >>))
  ELSE IF c \in {LBRACKET, LBRACE} THEN ParseNested(t, c, SkipWs(t, j + 1), depth)
  ELSE PErr("ExpectedSomeValue")

ValueFrom(t, j, depth) == ValueAt(t, j, At(t, j), depth)

\* The value that starts at or after t[i], after whitespace.
ParseValue(t, i, depth) == ValueFrom(t, SkipWs(t, i), depth)

\* Deserializer::end: nothing but whitespace after the value.
End(text, r) ==
  IF ~r.ok THEN [ok |-> FALSE, err |-> "SerdeJsonError", code |-> r.err]
  ELSE IF SkipWs(text, r.i) <= Len(text)
    THEN [ok |-> FALSE, err |-> "SerdeJsonError", code |-> "TrailingCharacters"]
  ELSE [ok |-> TRUE, v |-> r.v]

\* serde_json::from_str::<Value>: one value, then nothing but whitespace.
FromStr(text) == End(text, ParseValue(text, 1, 128))

(***************************************************************************)
(* Field projection: the lookup helpers of lib.rs over a parsed Value.     *)
(***************************************************************************)
\* Value::get(&str): a member of an object; None for any other value.
Get(json, index) ==
  IF json.t = "obj" /\ index \in DOMAIN json.o THEN Some(json.o[index]) ELSE None

\* A lookup that takes an empty string for a missing one.
GetStringNonEmpty(json, index) ==
  LET a == Get(json, index)
  IN  IF a.some /\ a.v.t = "str" /\ a.v.s # << >> THEN Some(a.v.s) ELSE None

\* A lookup that reads null as the empty string.
GetStringNullAsEmpty(json, index) ==
  LET a == Get(json, index)
  IN  IF a.some /\ a.v.t = "str" THEN Some(a.v.s)
      ELSE IF a.some /\ a.v.t = "null" THEN Some(<< >>)
      ELSE None

\* get_string: json.get(index).and_then(as_str).map(to_owned).
GetString(json, index) ==
  LET a == Get(json, index)
  IN  IF a.some /\ a.v.t = "str" THEN Some(a.v.s) ELSE None

\* A lookup that reads any value but false and null as true.
GetBoolTruthy(json, index) ==
  LET a == Get(json, index)
  IN  IF a.some /\ a.v.t = "bool" THEN a.v.b ELSE a.some /\ a.v.t # "null"

\* get_bool: json.get(index).and_then(as_bool).unwrap_or(false).
GetBool(json, index) ==
  LET a == Get(json, index)
  IN  IF a.some /\ a.v.t = "bool" THEN a.v.b ELSE FALSE

RECURSIVE Pow(_, _)
Pow(b, n) == IF n = 0 THEN 1 ELSE b * Pow(b, n - 1)

RECURSIVE OddPart(_, _)
\* m * 2^e with the factors of two moved from m to e.
OddPart(m, e) ==
  IF m # 0 /\ m % 2 = 0 THEN OddPart(m \div 2, e + 1) ELSE [m |-> m, e |-> e]

\* `x as f32` of the number n: the nearest m * 2^e with m below 2^24, ties
\* to the even m.  The numbers the model reads are exact as f64 (integers
\* below 2^31, fractions of at most two digits).
AsF32(n) ==
  LET N == IF n.exp >= 0 THEN n.mant * Pow(10, n.exp) ELSE n.mant
      D == IF n.exp >= 0 THEN 1 ELSE Pow(10, -n.exp)
      up == IF N \div D >= 8388608 THEN 0
            ELSE CHOOSE k \in 0..30 : (N * Pow(2, k)) \div D >= 8388608
      down == IF N \div D < 16777216 THEN 0
              ELSE CHOOSE k \in 1..8 : N \div (D * Pow(2, k)) < 16777216
      num == N * Pow(2, up)
      den == D * Pow(2, down)
      q == num \div den
      r == num - q * den
      m == IF 2 * r > den \/ (2 * r = den /\ q % 2 = 1) THEN q + 1 ELSE q
      v == OddPart(m, down - up)
  IN  IF n.mant = 0 THEN [neg |-> n.neg, m |-> 0, e |-> 0]
      ELSE [neg |-> n.neg, m |-> v.m, e |-> v.e]

\* A conversion that takes a string for the number 0.
AsF64OrZero(v) ==
  IF v.t = "num" THEN Some(v)
  ELSE IF v.t = "str" THEN Some(JNum("PosInt", FALSE, 0, 0))
  ELSE None

\* Value::as_f64: Some for every number, None for any other value.
AsF64(v) == IF v.t = "num" THEN Some(v) ELSE None

\* get_coordinates: both lookups must give a number.
GetCoordinates(json, latitude_index, longitude_index) ==
  LET a == Get(json, latitude_index)
      b == Get(json, longitude_index)
      latitude == IF a.some THEN AsF64(a.v) ELSE None
      longitude == IF b.some THEN AsF64(b.v) ELSE None
  IN  IF latitude.some /\ longitude.some
        THEN Some([latitude |-> AsF32(latitude.v), longitude |-> AsF32(longitude.v)])
        ELSE None

\* A pairing that takes the name from the second key and the code from the
\* first.
GetNameAndCodeSwapped(json, name_index, code_index) ==
  LET name == Get(json, code_index)
      code == Get(json, name_index)
  IN  IF name.some /\ name.v.t = "str" /\ code.some /\ code.v.t = "str"
        THEN Some([name |-> name.v.s, code |-> code.v.s])
        ELSE None

\* get_name_and_code: both lookups must give a string.
GetNameAndCode(json, name_index, code_index) ==
  LET name == GetString(json, name_index)
      code == GetString(json, code_index)
  IN  IF name.some /\ code.some THEN Some([name |-> name.v, code |-> code.v])
      ELSE None

KeyQuery == S(<< "q", "u", "e", "r", "y" >>)
KeyCountry == S(<< "c", "o", "u", "n", "t", "r", "y" >>)
KeyCountryCode == S(<< "c", "o", "u", "n", "t", "r", "y", "C", "o", "d", "e" >>)
KeyRegionName == S(<< "r", "e", "g", "i", "o", "n", "N", "a", "m", "e" >>)
KeyRegion == S(<< "r", "e", "g", "i", "o", "n" >>)
KeyCity == S(<< "c", "i", "t", "y" >>)
KeyZip == S(<< "z", "i", "p" >>)
KeyLat == S(<< "l", "a", "t" >>)
KeyLon == S(<< "l", "o", "n" >>)
KeyTimezone == S(<< "t", "i", "m", "e", "z", "o", "n", "e" >>)
KeyIsp == S(<< "i", "s", "p" >>)
KeyOrg == S(<< "o", "r", "g" >>)
KeyAs == S(<< "a", "s" >>)
KeyReverse == S(<< "r", "e", "v", "e", "r", "s", "e" >>)
KeyMobile == S(<< "m", "o", "b", "i", "l", "e" >>)
KeyProxy == S(<< "p", "r", "o", "x", "y" >>)

\* The closure of the final map: the Response of a parsed document, or the
\* panic of expect() when get_string(&json, "query") is None.
Project(json) ==
  LET query == GetString(json, KeyQuery)
  IN  IF ~query.some
        THEN [kind |-> "Panic", msg |-> "The queried IP was not in the response."]
        ELSE [kind |-> "Ok",
              response |->
                [query |-> query.v,
                 country |-> GetNameAndCode(json, KeyCountry, KeyCountryCode),
                 region |-> GetNameAndCode(json, KeyRegionName, KeyRegion),
                 city |-> GetString(json, KeyCity),
                 zip |-> GetString(json, KeyZip),
                 location |-> GetCoordinates(json, KeyLat, KeyLon),
                 timezone |-> GetString(json, KeyTimezone),
                 isp |-> GetString(json, KeyIsp),
                 organization |-> GetString(json, KeyOrg),
                 autonomous_system |-> GetString(json, KeyAs),
                 reverse |-> GetString(json, KeyReverse),
                 mobile |-> GetBool(json, KeyMobile),
                 proxy |-> GetBool(json, KeyProxy)]]

(***************************************************************************)
(* The request target.  An address is [v |-> 4, o |-> four octets] or      *)
(* [v |-> 6, s |-> eight segments].                                        *)
(***************************************************************************)
RECURSIVE Digits(_, _)
\* The digits of n in the given base, lower case, no leading zeros.
Digits(n, base) ==
  LET d == n % base
      c == IF d < 10 THEN 48 + d ELSE 87 + d
  IN  IF n < base THEN << c >> ELSE Append(Digits(n \div base, base), c)

RECURSIVE Join(_, _)
\* The parts with sep between them.
Join(parts, sep) ==
  IF parts = << >> THEN << >>
  ELSE IF Len(parts) = 1 THEN parts[1]
  ELSE parts[1] \o sep \o Join(Tail(parts), sep)

\* Display for Ipv4Addr: the four octets in decimal with dots between.
Ipv4ToString(o) == Join([i \in 1..4 |-> Digits(o[i], 10)], << DOT >>)

\* The length of the run of zero segments that starts at segment i.
ZeroRun(s, i) ==
  IF s[i] # 0 THEN 0
  ELSE (CHOOSE j \in i..9 : (j = 9 \/ s[j] # 0) /\ \A k \in i..(j - 1) : s[k] = 0) - i

\* Display for Ipv6Addr: ::, ::1, the forms with an embedded IPv4 address,
\* and otherwise hexadecimal segments with the first longest run of two or
\* more zero segments written as ::.
Ipv6ToString(s) ==
  LET hex(a, b) == Join([i \in 1..(b - a + 1) |-> Digits(s[a + i - 1], 16)], << COLON >>)
      v4 == Ipv4ToString(<< s[7] \div 256, s[7] % 256, s[8] \div 256, s[8] % 256 >>)
      longest == CHOOSE i \in 1..8 :
                   \A j \in 1..8 : ZeroRun(s, j) < ZeroRun(s, i)
                                     \/ (ZeroRun(s, j) = ZeroRun(s, i) /\ j >= i)
      len == ZeroRun(s, longest)
  IN  IF \A i \in 1..8 : s[i] = 0 THEN << COLON, COLON >>
      ELSE IF (\A i \in 1..7 : s[i] = 0) /\ s[8] = 1 THEN << COLON, COLON, 49 >>
      ELSE IF \A i \in 1..6 : s[i] = 0 THEN << COLON, COLON >> \o v4
      ELSE IF (\A i \in 1..5 : s[i] = 0) /\ s[6] = 65535
        THEN << COLON, COLON >> \o S(<< "f", "f", "f", "f", ":" >>) \o v4
      ELSE IF len > 1
        THEN hex(1, longest - 1) \o << COLON, COLON >> \o hex(longest + len, 8)
      ELSE hex(1, 8)

\* Display for IpAddr.
IpToString(ip) == IF ip.v = 4 THEN Ipv4ToString(ip.o) ELSE Ipv6ToString(ip.s)

\* "http://ip-api.com/json"
BaseUrl ==
  S(<< "h", "t", "t", "p", ":", "/", "/", "i", "p", "-", "a", "p", "i", ".", "c", "o",
       "m", "/", "j", "s", "o", "n" >>)

\* A path that keeps its slash when there is no address.
IpStringAlwaysSlash(ip) == << SLASH >> \o (IF ip.some THEN IpToString(ip.v) ELSE << >>)

\* ip.map(|ip| "/" + &ip.to_string()).unwrap_or("")
IpString(ip) == IF ip.some THEN << SLASH >> \o IpToString(ip.v) ELSE << >>

\* The text handed to parse::<Uri>().
Target(ip) == BaseUrl \o IpString(ip)

\* parse::<Uri>() of an absolute target: the scheme http://, an authority
\* that is not empty, and no byte outside the visible ASCII characters.
UriParses(u) ==
  /\ Len(u) > 7
  /\ SubSeq(u, 1, 7) = S(<< "h", "t", "t", "p", ":", "/", "/" >>)
  /\ u[8] # SLASH
  /\ \A i \in 1..Len(u) : u[i] \in 33..126

(***************************************************************************)
(* The remote service: the responses the model reads.  A response is the   *)
(* body on the wire, the places where the transport may split it into      *)
(* chunks, whether the body is UTF-8, and the document it is the JSON text *)
(* of (None when it is none).                                              *)
(***************************************************************************)
\* The keys of the wire contract, in the order the service writes them.
KeyList ==
  << KeyQuery, KeyCountry, KeyCountryCode, KeyRegionName, KeyRegion, KeyCity, KeyZip,
     KeyLat, KeyLon, KeyTimezone, KeyIsp, KeyOrg, KeyAs, KeyReverse, KeyMobile,
     KeyProxy >>

\* The values a key is given: the text on the wire and the value it denotes.
ValueOptions ==
  << [text |-> S(<< "\"", "A", "b", "\"" >>), val |-> JStr(S(<< "A", "b" >>))],
     [text |-> S(<< "\"", "\"" >>), val |-> JStr(<< >>)],
     [text |-> S(<< "\"", "\\", "u", "0", "0", "E", "9", "\\", "n", "\"" >>),
      val |-> JStr(<< 195, 169, 10 >>)],
     [text |-> << 34, 195, 169, 34 >>, val |-> JStr(<< 195, 169 >>)],
     [text |-> S(<< "n", "u", "l", "l" >>), val |-> JNull],
     [text |-> S(<< "t", "r", "u", "e" >>), val |-> JBool(TRUE)],
     [text |-> S(<< "f", "a", "l", "s", "e" >>), val |-> JBool(FALSE)],
     [text |-> S(<< "3", "7", ".", "5" >>), val |-> JNum("Float", FALSE, 375, -1)],
     [text |-> S(<< "-", "1", "2", "2" >>), val |-> JNum("NegInt", TRUE, 122, 0)],
     [text |-> S(<< "[", "1", "]" >>), val |-> JArr(<< JNum("PosInt", FALSE, 1, 0) >>)],
     [text |-> S(<< "{", "\"", "q", "u", "e", "r", "y", "\"", ":", "\"", "x", "\"", "}" >>),
      val |-> JObj((KeyQuery :> JStr(S(<< "x" >>))))] >>

\* A choice gives every key of KeyList an index of ValueOptions, or 0: the
\* key is not in the document.
Member(k, opt) == << QUOTE >> \o KeyList[k] \o << QUOTE, COLON >> \o ValueOptions[opt].text

RECURSIVE Members(_, _)
Members(choice, k) ==
  IF k > Len(KeyList) THEN << >>
  ELSE (IF choice[k] = 0 THEN << >> ELSE << Member(k, choice[k]) >>)
         \o Members(choice, k + 1)

\* The JSON text of a choice, and the document it denotes.
Render(choice) == << LBRACE >> \o Join(Members(choice, 1), << COMMA >>) \o << RBRACE >>
DocOf(choice) ==
  JObj([key \in {KeyList[k] : k \in {j \in 1..Len(KeyList) : choice[j] # 0}} |->
          ValueOptions[choice[CHOOSE k \in 1..Len(KeyList) : KeyList[k] = key]].val])

\* Every key with a value of its documented type, and the query alone.
BaseFull == << 1, 3, 1, 4, 1, 1, 2, 8, 9, 1, 1, 1, 1, 1, 6, 7 >>
BaseMinimal == << 1, 0, 0, 0, 0, 0, 0, 0, 0, 0, 0, 0, 0, 0, 0, 0 >>

\* The pairs of keys that are varied together over every option.
FocusPairs ==
  { << 1, 6 >>, << 2, 3 >>, << 4, 5 >>, << 8, 9 >>, << 15, 16 >>, << 7, 10 >>,
    << 11, 12 >>, << 13, 14 >> }

Choices ==
  { [base EXCEPT ![p[1]] = a, ![p[2]] = b] :
      base \in {BaseFull, BaseMinimal}, p \in FocusPairs,
      a \in 0..Len(ValueOptions), b \in 0..Len(ValueOptions) }

ServiceResponse(body, cuts, utf8, doc) == [body |-> body, cuts |-> cuts, utf8 |-> utf8, doc |-> doc]

\* A rendered document, delivered in one chunk.
DocResponse(choice) ==
  LET body == Render(choice)
  IN  ServiceResponse(body, {}, TRUE, Some(DocOf(choice)))

\* {"query":"1"}
MinimalBody ==
  S(<< "{", "\"", "q", "u", "e", "r", "y", "\"", ":", "\"", "1", "\"", "}" >>)
MinimalDoc == JObj((KeyQuery :> JStr(S(<< "1" >>))))

\* Short bodies that the transport may split anywhere: a document, JSON
\* that is no object, text that is not JSON, bytes that are not UTF-8 (the
\* second one inside what would be a JSON string), and the empty body.
ShortResponses ==
  { ServiceResponse(MinimalBody, {1, 2, 9, 10, 11, 12}, TRUE, Some(MinimalDoc)),
    ServiceResponse(S(<< "{", "}" >>) \o << 10 >>, 0..3, TRUE, Some(JObj(<< >>))),
    ServiceResponse(<< 34, 195, 169, 34 >>, 0..4, TRUE, Some(JStr(<< 195, 169 >>))),
    ServiceResponse(S(<< "{", "\"", "q", "u", "e", "r", "y", "\"", ":" >>), {1, 8, 9}, TRUE, None),
    ServiceResponse(S(<< "[", "1", ",", "]" >>), 0..4, TRUE, None),
    ServiceResponse(<< 123, 255, 125 >>, 0..3, FALSE, None),
    ServiceResponse(<< 34, 195, 34 >>, 0..3, FALSE, None),
    ServiceResponse(<< >>, {0}, TRUE, None) }

\* Optional addresses: none, IPv4 and IPv6.
Addresses ==
  { None,
    Some([v |-> 4, o |-> << 8, 8, 8, 8 >>]),
    Some([v |-> 4, o |-> << 192, 168, 0, 255 >>]),
    Some([v |-> 6, s |-> << 0, 0, 0, 0, 0, 0, 0, 1 >>]),
    Some([v |-> 6, s |-> << 8193, 3512, 0, 0, 0, 0, 0, 1 >>]),
    Some([v |-> 6, s |-> << 0, 0, 0, 0, 0, 65535, 2056, 2056 >>]),
    Some([v |-> 6, s |-> << 1, 0, 2, 0, 0, 3, 0, 0 >>]) }

\* What one call is given: its address and the response the service sends.
Inputs ==
  { [ip |-> Some([v |-> 4, o |-> << 8, 8, 8, 8 >>]), resp |-> DocResponse(ch)] :
      ch \in Choices }
    \cup { [ip |-> None, resp |-> r] : r \in ShortResponses }
    \cup { [ip |-> a, resp |-> ServiceResponse(MinimalBody, {}, TRUE, Some(MinimalDoc))] :
             a \in Addresses }

(***************************************************************************)
(* The calls.  Every variable is a function of the calls made on the one   *)
(* IpApi instance; a call owns its future's state.                         *)
(***************************************************************************)
VARIABLES
  pc,       \* where the call's future is: new, get, sent, body, collected,
            \* decoded, parsed, done
  ip,       \* the Option<IpAddr> the call was given
  resp,     \* the response the service sends to the call
  neterr,   \* whether the transport failed the call
  uri,      \* the parsed request target
  issued,   \* the targets of the GETs the call issued
  pos,      \* how many bytes of the body have arrived
  chunks,   \* the chunks collected so far
  arrived,  \* how many chunks the stream has yielded
  data,     \* the concatenated buffer
  text,     \* the decoded text
  json,     \* the parsed document
  outcome,  \* what the call ended with
  stages    \* the stages the call has run, in order

vars ==
  << pc, ip, resp, neterr, uri, issued, pos, chunks, arrived, data, text, json, outcome,
     stages >>

\* How many calls are in flight at once, and how many empty chunks the
\* transport may deliver in one body.
MaxCalls == 2
MaxEmptyChunks == 1

Calls == DOMAIN pc

\* error_chain foreign_links: the error of a stage as the library's Error.
ErrorFrom(kind) == [kind |-> "Err", err |-> kind]

Pending == [kind |-> "Pending"]

\* The calls start with their inputs; nothing has run.
InitWith(inputs) ==
  /\ pc = [c \in DOMAIN inputs |-> "new"]
  /\ ip = [c \in DOMAIN inputs |-> inputs[c].ip]
  /\ resp = [c \in DOMAIN inputs |-> inputs[c].resp]
  /\ neterr = [c \in DOMAIN inputs |-> FALSE]
  /\ uri = [c \in DOMAIN inputs |-> None]
  /\ issued = [c \in DOMAIN inputs |-> << >>]
  /\ pos = [c \in DOMAIN inputs |-> 0]
  /\ chunks = [c \in DOMAIN inputs |-> << >>]
  /\ arrived = [c \in DOMAIN inputs |-> 0]
  /\ data = [c \in DOMAIN inputs |-> None]
  /\ text = [c \in DOMAIN inputs |-> None]
  /\ json = [c \in DOMAIN inputs |-> None]
  /\ outcome = [c \in DOMAIN inputs |-> Pending]
  /\ stages = [c \in DOMAIN inputs |-> << >>]

\* A panic in the poll of call c unwinds the task that polls it.  The
\* returned future borrows the instance, so the calls in flight are polled
\* either by one task (joined, or one Core::run) or each by a task of its
\* own: scope is "task" or "call".  The calls the unwinding takes along end
\* without an outcome of their own.
InFlight(c) == pc[c] \notin {"new", "done"}
Unwound(c, scope) == {c} \cup {d \in Calls : scope = "task" /\ InFlight(d)}
PanicOutcomes(c, msg, scope) ==
  [d \in Calls |->
     IF d = c THEN [kind |-> "Panic", msg |-> msg]
     ELSE IF d \in Unwound(c, scope) THEN [kind |-> "Aborted", by |-> c]
     ELSE outcome[d]]
PanicPcs(c, scope) == [d \in Calls |-> IF d \in Unwound(c, scope) THEN "done" ELSE pc[d]]

\* request(): the target is built and parsed; expect() panics when it does
\* not parse.
Request(c) ==
  /\ pc[c] = "new"
  /\ IF UriParses(Target(ip[c]))
       THEN /\ uri' = [uri EXCEPT ![c] = Some(Target(ip[c]))]
            /\ pc' = [pc EXCEPT ![c] = "get"]
            /\ UNCHANGED outcome
       ELSE \E scope \in {"task", "call"} :
              /\ outcome' = PanicOutcomes(c, "Could not create the ip-api request URL.", scope)
              /\ pc' = PanicPcs(c, scope)
              /\ UNCHANGED uri
  /\ UNCHANGED << arrived, ip, resp, neterr, issued, pos, chunks, data, text, json, stages >>

\* self.client.get(uri): the GET is issued.
ClientGet(c) ==
  /\ pc[c] = "get"
  /\ issued' = [issued EXCEPT ![c] = Append(@, uri[c].v)]
  /\ stages' = [stages EXCEPT ![c] = Append(@, "transport")]
  /\ pc' = [pc EXCEPT ![c] = "sent"]
  /\ UNCHANGED << arrived, ip, resp, neterr, uri, pos, chunks, data, text, json, outcome >>

\* The response arrives: response.into_body().
IntoBody(c) ==
  /\ pc[c] = "sent"
  /\ pc' = [pc EXCEPT ![c] = "body"]
  /\ UNCHANGED << arrived, ip, resp, neterr, uri, issued, pos, chunks, data, text, json, outcome,
                  stages >>

\* A collection that puts the newest chunk first.
CollectFirst(vec, chunk) == << chunk >> \o vec

\* .map(|chunk| chunk.to_vec()).collect(): one more chunk in the vector.
Collect(vec, chunk) == Append(vec, chunk)

EmptyChunks(vec) == Cardinality({i \in 1..Len(vec) : vec[i] = << >>})

\* The stream yields a chunk: the bytes up to one of the places where the
\* transport may split the body, or up to its end; at such a place it may
\* yield an empty chunk, at most MaxEmptyChunks times in one body.
Chunk(c) ==
  /\ pc[c] = "body"
  /\ \E p \in resp[c].cuts \cup {Len(resp[c].body)} :
       /\ p >= pos[c]
       /\ p = pos[c] => p \in resp[c].cuts /\ EmptyChunks(chunks[c]) < MaxEmptyChunks
       /\ chunks' = [chunks EXCEPT ![c] = Collect(@, SubSeq(resp[c].body, pos[c] + 1, p))]
       /\ pos' = [pos EXCEPT ![c] = p]
       /\ arrived' = [arrived EXCEPT ![c] = @ + 1]
  /\ UNCHANGED << pc, ip, resp, neterr, uri, issued, data, text, json, outcome, stages >>

\* The stream ends: .map(|vec| vec.concat()) consumes the vector.
StreamEnd(c) ==
  /\ pc[c] = "body"
  /\ pos[c] = Len(resp[c].body)
  /\ data' = [data EXCEPT ![c] = Some(Concat(chunks[c]))]
  /\ chunks' = [chunks EXCEPT ![c] = << >>]
  /\ pc' = [pc EXCEPT ![c] = "collected"]
  /\ UNCHANGED << arrived, ip, resp, neterr, uri, issued, pos, text, json, outcome, stages >>

\* The exchange fails before the response or in the middle of the body:
\* .map_err(Error::from), the chunks collected so far are dropped and the
\* later closures are skipped.
TransportError(c) ==
  /\ pc[c] \in {"sent", "body"}
  /\ neterr' = [neterr EXCEPT ![c] = TRUE]
  /\ chunks' = [chunks EXCEPT ![c] = << >>]
  /\ outcome' = [outcome EXCEPT ![c] = ErrorFrom("HyperError")]
  /\ pc' = [pc EXCEPT ![c] = "done"]
  /\ UNCHANGED << arrived, ip, resp, uri, issued, pos, data, text, json, stages >>

\* .and_then(|data| String::from_utf8(data).map_err(Error::from))
Utf8Decode(c) ==
  /\ pc[c] = "collected"
  /\ stages' = [stages EXCEPT ![c] = Append(@, "utf8")]
  /\ LET r == FromUtf8(data[c].v)
     IN  IF r.ok
           THEN /\ text' = [text EXCEPT ![c] = Some(r.v)]
                /\ pc' = [pc EXCEPT ![c] = "decoded"]
                /\ UNCHANGED outcome
           ELSE /\ outcome' = [outcome EXCEPT ![c] = ErrorFrom(r.err)]
                /\ pc' = [pc EXCEPT ![c] = "done"]
                /\ UNCHANGED text
  /\ UNCHANGED << arrived, ip, resp, neterr, uri, issued, pos, chunks, data, json >>

\* .and_then(|response_string| serde_json::from_str(..).map_err(Error::from))
JsonParse(c) ==
  /\ pc[c] = "decoded"
  /\ stages' = [stages EXCEPT ![c] = Append(@, "json")]
  /\ LET r == FromStr(text[c].v)
     IN  IF r.ok
           THEN /\ json' = [json EXCEPT ![c] = Some(r.v)]
                /\ pc' = [pc EXCEPT ![c] = "parsed"]
                /\ UNCHANGED outcome
           ELSE /\ outcome' = [outcome EXCEPT ![c] = ErrorFrom(r.err)]
                /\ pc' = [pc EXCEPT ![c] = "done"]
                /\ UNCHANGED json
  /\ UNCHANGED << arrived, ip, resp, neterr, uri, issued, pos, chunks, data, text >>

\* .map(move |json| Response { .. }): the Response, or the panic of expect().
MapResponse(c) ==
  /\ pc[c] = "parsed"
  /\ stages' = [stages EXCEPT ![c] = Append(@, "project")]
  /\ LET r == Project(json[c].v)
     IN  IF r.kind = "Ok"
           THEN /\ outcome' = [outcome EXCEPT ![c] = r]
                /\ pc' = [pc EXCEPT ![c] = "done"]
           ELSE \E scope \in {"task", "call"} :
                  /\ outcome' = PanicOutcomes(c, r.msg, scope)
                  /\ pc' = PanicPcs(c, scope)
  /\ UNCHANGED << arrived, ip, resp, neterr, uri, issued, pos, chunks, data, text, json >>

Next ==
  \/ \E c \in Calls : Request(c)
  \/ \E c \in Calls : ClientGet(c)
  \/ \E c \in Calls : IntoBody(c)
  \/ \E c \in Calls : Chunk(c)
  \/ \E c \in Calls : StreamEnd(c)
  \/ \E c \in Calls : TransportError(c)
  \/ \E c \in Calls : Utf8Decode(c)
  \/ \E c \in Calls : JsonParse(c)
  \/ \E c \in Calls : MapResponse(c)

\* One call.
Init == \E i \in Inputs : InitWith((1 :> i))
Spec == Init /\ [][Next]_vars

\* MaxCalls calls in flight on the same instance.
ConcInputs ==
  { [ip |-> None, resp |-> r] :
      r \in { ServiceResponse(MinimalBody, {9}, TRUE, Some(MinimalDoc)),
              ServiceResponse(S(<< "{", "\"", "q", "u", "e", "r", "y", "\"", ":", "n", "u", "l", "l",
                            "}" >>), {9}, TRUE, Some(JObj((KeyQuery :> JNull)))),
              ServiceResponse(<< 34, 195, 34 >>, {2}, FALSE, None),
              ServiceResponse(S(<< "[", "1", ",", "]" >>), {2}, TRUE, None) } }
InitConc == \E f \in [1..MaxCalls -> ConcInputs] : InitWith(f)
SpecConc == InitConc /\ [][Next]_vars

(***************************************************************************)
(* The claims.  They are stated against the document the service sent      *)
(* (resp[c].doc), not against what the decoders made of its text.          *)
(***************************************************************************)
Finished(c) == pc[c] = "done"
Succeeded(c) == pc[c] = "done" /\ outcome[c].kind = "Ok"
Result(c) == outcome[c].response

\* The call read a whole response whose body is the text of a document.
ReadDocument(c) == pc[c] = "done" /\ ~neterr[c] /\ resp[c].doc.some

\* The document has the top-level key, and its value is of the type.
DocHas(c, key) ==
  resp[c].doc.some /\ resp[c].doc.v.t = "obj" /\ key \in DOMAIN resp[c].doc.v.o
DocValue(c, key) == resp[c].doc.v.o[key]
DocIs(c, key, type) == DocHas(c, key) /\ DocValue(c, key).t = type

StageOrder == << "transport", "utf8", "json", "project" >>

\* C1: a call that read a document with no top-level query string ends
\* with a failure value, never with an abort.
C1_MissingQueryIsAFailureValue ==
  \A c \in Calls :
    ReadDocument(c) /\ ~DocIs(c, KeyQuery, "str") => outcome[c].kind = "Err"

\* C2: the stages run in the order transport, UTF-8, JSON, projection; one
\* GET at most is issued; a finished call whose transport failed ends with
\* the transport failure and ran no later stage, one whose body is not
\* UTF-8 ends with the text-encoding failure and ran neither JSON parsing
\* nor projection, and one whose text is not JSON ends with the parse
\* failure and ran no projection; none of them has a Result.
C2_FirstFailingStageDecides ==
  \A c \in Calls :
    /\ Len(stages[c]) <= 4
    /\ stages[c] = SubSeq(StageOrder, 1, Len(stages[c]))
    /\ Len(issued[c]) <= 1
    /\ Finished(c) /\ neterr[c] =>
         outcome[c] = [kind |-> "Err", err |-> "HyperError"] /\ Len(stages[c]) = 1
    /\ Finished(c) /\ ~neterr[c] /\ ~resp[c].utf8 =>
         outcome[c] = [kind |-> "Err", err |-> "FromUtf8Error"] /\ Len(stages[c]) = 2
    /\ Finished(c) /\ ~neterr[c] /\ resp[c].utf8 /\ ~resp[c].doc.some =>
         outcome[c] = [kind |-> "Err", err |-> "SerdeJsonError"] /\ Len(stages[c]) = 3

C2_Witness ==
  \E c \in Calls :
    /\ Finished(c) /\ ~neterr[c] /\ ~resp[c].utf8
    /\ outcome[c].kind = "Err"
    /\ stages[c] = << "transport", "utf8" >>
    /\ arrived[c] > 1

\* The pair of a Result is present only if both keys hold strings that are
\* not empty.
PairNeedsNonEmpty(c, pair, name_key, code_key) ==
  pair.some =>
    /\ DocIs(c, name_key, "str") /\ DocValue(c, name_key).s # << >>
    /\ DocIs(c, code_key, "str") /\ DocValue(c, code_key).s # << >>

\* C3 as claimed: country and region are present only if both of their
\* keys hold non-empty strings.
C3_PairsNeedNonEmptyStrings ==
  \A c \in Calls :
    Succeeded(c) =>
      /\ PairNeedsNonEmpty(c, Result(c).country, KeyCountry, KeyCountryCode)
      /\ PairNeedsNonEmpty(c, Result(c).region, KeyRegionName, KeyRegion)

\* The pair is present only if both keys hold strings, and it is present,
\* with the empty half, when both hold strings of which one is empty.
PairNeedsStrings(c, pair, name_key, code_key) ==
  /\ pair.some => DocIs(c, name_key, "str") /\ DocIs(c, code_key, "str")
  /\ ( /\ DocIs(c, name_key, "str") /\ DocIs(c, code_key, "str")
       /\ << >> \in {DocValue(c, name_key).s, DocValue(c, code_key).s} )
     => /\ pair.some
        /\ pair.v.name = DocValue(c, name_key).s
        /\ pair.v.code = DocValue(c, code_key).s

\* C3 as amended: country and region are present only if both of their
\* keys hold strings, the empty string included.
C3_PairsNeedStrings ==
  \A c \in Calls :
    Succeeded(c) =>
      /\ PairNeedsStrings(c, Result(c).country, KeyCountry, KeyCountryCode)
      /\ PairNeedsStrings(c, Result(c).region, KeyRegionName, KeyRegion)

C3_Witness ==
  \E c \in Calls :
    /\ Succeeded(c)
    /\ DocIs(c, KeyCountry, "str") /\ DocValue(c, KeyCountry).s = << >>
    /\ DocIs(c, KeyCountryCode, "str") /\ DocValue(c, KeyCountryCode).s # << >>
    /\ Result(c).country.some

PairRule(c, pair, name_key, code_key) ==
  /\ pair.some <=> DocIs(c, name_key, "str") /\ DocIs(c, code_key, "str")
  /\ pair.some =>
       /\ pair.v.name = DocValue(c, name_key).s
       /\ pair.v.code = DocValue(c, code_key).s

\* C4: country is present exactly when country and countryCode both hold
\* strings, region exactly when regionName and region do; the name is the
\* string of the first key and the code the string of the second.
C4_BothOrNeither ==
  \A c \in Calls :
    Succeeded(c) =>
      /\ PairRule(c, Result(c).country, KeyCountry, KeyCountryCode)
      /\ PairRule(c, Result(c).region, KeyRegionName, KeyRegion)

C4_Witness ==
  \E c \in Calls :
    /\ Succeeded(c)
    /\ DocIs(c, KeyCountry, "str") /\ ~DocHas(c, KeyCountryCode)
    /\ ~Result(c).country.some
    /\ Result(c).region.some
    /\ Result(c).region.v.name # Result(c).region.v.code

\* The plain string fields of a Result with the keys they are read from.
StringFields ==
  { << "city", KeyCity >>, << "zip", KeyZip >>, << "timezone", KeyTimezone >>,
    << "isp", KeyIsp >>, << "organization", KeyOrg >>, << "autonomous_system", KeyAs >>,
    << "reverse", KeyReverse >> }

\* C5: a plain string field is present exactly when its key holds a string
\* (the empty one too), and then it is that string; nothing else in the
\* document matters.
C5_StringFields ==
  \A c \in Calls :
    Succeeded(c) =>
      \A f \in StringFields :
        /\ Result(c)[f[1]].some <=> DocIs(c, f[2], "str")
        /\ Result(c)[f[1]].some => Result(c)[f[1]].v = DocValue(c, f[2]).s

C5_Witness ==
  \E c \in Calls :
    /\ Succeeded(c)
    /\ DocIs(c, KeyZip, "str") /\ DocValue(c, KeyZip).s = << >> /\ Result(c).zip.some
    /\ DocIs(c, KeyTimezone, "null") /\ ~Result(c).timezone.some
    /\ ~DocHas(c, KeyCity) /\ ~Result(c).city.some

\* C6: location is present exactly when lat and lon both hold numbers, and
\* a call that read a document with a query string succeeds whatever lat
\* and lon hold.
C6_Location ==
  \A c \in Calls :
    ReadDocument(c) /\ DocIs(c, KeyQuery, "str") =>
      /\ outcome[c].kind = "Ok"
      /\ Result(c).location.some <=> DocIs(c, KeyLat, "num") /\ DocIs(c, KeyLon, "num")

C6_Witness ==
  \E c \in Calls :
    /\ Succeeded(c)
    /\ DocIs(c, KeyLat, "str") /\ DocIs(c, KeyLon, "num")
    /\ ~Result(c).location.some

\* The boolean a key gives: its value when it holds a boolean, else false.
DocBool(c, key) == IF DocIs(c, key, "bool") THEN DocValue(c, key).b ELSE FALSE

\* C7: mobile and proxy are the booleans their keys hold and false in
\* every other case, and a call that read a document with a query string
\* succeeds whatever mobile and proxy hold.
C7_Booleans ==
  \A c \in Calls :
    ReadDocument(c) /\ DocIs(c, KeyQuery, "str") =>
      /\ outcome[c].kind = "Ok"
      /\ Result(c).mobile = DocBool(c, KeyMobile)
      /\ Result(c).proxy = DocBool(c, KeyProxy)

C7_Witness ==
  \E c \in Calls :
    /\ Succeeded(c)
    /\ ~DocHas(c, KeyMobile) /\ DocIs(c, KeyProxy, "str")
    /\ ~Result(c).mobile /\ ~Result(c).proxy

\* The text of the addresses the model calls with.
AddressText(a) ==
  CASE a = [v |-> 4, o |-> << 8, 8, 8, 8 >>] -> S(<< "8", ".", "8", ".", "8", ".", "8" >>)
    [] a = [v |-> 4, o |-> << 192, 168, 0, 255 >>] ->
         S(<< "1", "9", "2", ".", "1", "6", "8", ".", "0", ".", "2", "5", "5" >>)
    [] a = [v |-> 6, s |-> << 0, 0, 0, 0, 0, 0, 0, 1 >>] -> S(<< ":", ":", "1" >>)
    [] a = [v |-> 6, s |-> << 8193, 3512, 0, 0, 0, 0, 0, 1 >>] ->
         S(<< "2", "0", "0", "1", ":", "d", "b", "8", ":", ":", "1" >>)
    [] a = [v |-> 6, s |-> << 0, 0, 0, 0, 0, 65535, 2056, 2056 >>] ->
         S(<< ":", ":", "f", "f", "f", "f", ":", "8", ".", "8", ".", "8", ".", "8" >>)
    [] a = [v |-> 6, s |-> << 1, 0, 2, 0, 0, 3, 0, 0 >>] ->
         S(<< "1", ":", "0", ":", "2", ":", ":", "3", ":", "0", ":", "0" >>)

\* The target the claim names for an optional address.
ClaimedTarget(a) ==
  S(<< "h", "t", "t", "p", ":", "/", "/", "i", "p", "-", "a", "p", "i", ".", "c", "o",
       "m", "/", "j", "s", "o", "n" >>)
    \o (IF a.some THEN S(<< "/" >>) \o AddressText(a.v) ELSE << >>)

\* C8: the target is the base endpoint alone when no address is given and
\* the base, a slash and the text of the address otherwise; a call that got
\* as far as its GET issued exactly one, to that target.
C8_RequestTarget ==
  \A c \in Calls :
    /\ pc[c] # "new" => uri[c] = Some(ClaimedTarget(ip[c]))
    /\ pc[c] \in {"new", "get"} => issued[c] = << >>
    /\ pc[c] \notin {"new", "get"} => issued[c] = << ClaimedTarget(ip[c]) >>

C8_Witness ==
  \E c \in Calls :
    /\ Finished(c)
    /\ ~ip[c].some
    /\ Len(issued[c]) = 1 /\ issued[c][1][Len(issued[c][1])] = Ord("n")

\* What the call ends with when it runs alone on its own response.
OwnOutcome(c) ==
  IF neterr[c] THEN [kind |-> "Err", err |-> "HyperError"]
  ELSE IF ~resp[c].utf8 THEN [kind |-> "Err", err |-> "FromUtf8Error"]
  ELSE IF ~resp[c].doc.some THEN [kind |-> "Err", err |-> "SerdeJsonError"]
  ELSE Project(resp[c].doc.v)

\* C9: with several calls in flight, every finished call has the outcome
\* it would have had alone on its own response.
C9_CallsAreIndependent == \A c \in Calls : Finished(c) => outcome[c] = OwnOutcome(c)

\* The kind of an outcome, and the kind a body gives whatever its chunks.
OutcomeKind(o) == IF o.kind = "Err" THEN o.err ELSE o.kind
BodyKind(r) ==
  IF ~r.utf8 THEN "FromUtf8Error"
  ELSE IF ~r.doc.some THEN "SerdeJsonError"
  ELSE IF r.doc.v.t = "obj" /\ KeyQuery \in DOMAIN r.doc.v.o /\ r.doc.v.o[KeyQuery].t = "str"
    THEN "Ok"
  ELSE "Panic"

\* C10: while the body arrives the chunks collected are, in order, the
\* bytes that arrived; the buffer is the whole body; no decoding runs
\* before the stream has ended; and the outcome of a call whose transport
\* did not fail is decided by the body, not by its chunks.
C10_BufferIsTheBody ==
  \A c \in Calls :
    /\ pc[c] = "body" => Concat(chunks[c]) = SubSeq(resp[c].body, 1, pos[c])
    /\ data[c].some => data[c].v = resp[c].body
    /\ Len(stages[c]) > 1 => data[c].some /\ pos[c] = Len(resp[c].body)
    /\ Finished(c) /\ ~neterr[c] => OutcomeKind(outcome[c]) = BodyKind(resp[c])

C10_Witness ==
  \E c \in Calls :
    /\ Succeeded(c)
    /\ arrived[c] > 3
    /\ data[c].v = resp[c].body

====
